---- MODULE Spec2Model ----
(***************************************************************************)
(* A model of the Vector2D class of VectorD.mjs.                           *)
(*                                                                         *)
(*   this         the fields of the receiver: options, coords, saved,      *)
(*                history, _min, _max                                      *)
(*   heap         the Float32Array buffers coords, saved and the history   *)
(*                entries reference                                        *)
(*   constructed  whether the constructor returned the receiver            *)
(*   op, err, ret the last call, the error it raised, the value it         *)
(*                returned                                                 *)
(*   args         the arguments of a call of a static method               *)
(*                                                                         *)
(* JavaScript values are tagged records, so that undefined, NaN, numbers,  *)
(* arrays, buffers and objects can be compared with one another.  Numbers  *)
(* are whole numbers of small magnitude, which a Float32Array holds        *)
(* exactly.                                                                *)
(***************************************************************************)
EXTENDS Integers, Sequences, FiniteSets

VARIABLES this, heap, constructed, op, err, ret, args

vars == <<this, heap, constructed, op, err, ret, args>>

(***************************************************************************)
(* Bounds of the exploration.                                              *)
(***************************************************************************)
\* scalar arguments and coordinates range over -MaxNum..MaxNum
MaxNum == 1
\* the arguments of min(x, y) and max(x, y) range over 0..MaxBound
MaxBound == 1
\* options.history ranges over undefined and 0..MaxHistory
MaxHistory == 2
\* array arguments have 0..MaxArrayLen elements
MaxArrayLen == 3

(***************************************************************************)
(* JavaScript values.                                                      *)
(***************************************************************************)
Undefined == [t |-> "undefined"]

NaN == [t |-> "NaN"]

Number(n) == [t |-> "number", n |-> n]

Boolean(b) == [t |-> "boolean", b |-> b]

Array(elems) == [t |-> "Array", elems |-> elems]

\* a value that is neither a number, an array nor a Vector2D (a plain object)
Object == [t |-> "Object"]

\* a reference to the Float32Array stored at heap[id]
Ref(id) == [t |-> "Float32Array", id |-> id]

\* a method of the class read as a property (this.min, this.max)
Method(name) == [t |-> "function", name |-> name]

Nums == {Number(n) : n \in (0 - MaxNum)..MaxNum}

InRange(v) == v = NaN \/ v \in Nums

IsVector(v) == v.t = "Vector2D"

\* ToNumber, as applied when a value is stored into a Float32Array slot or
\* handed to Math.min / Math.max
ToNumber(v) ==
    IF v.t = "number" THEN v
    ELSE IF v.t = "Array" THEN
        (IF Len(v.elems) = 0 THEN Number(0)
         ELSE IF Len(v.elems) = 1 /\ v.elems[1].t = "number" THEN v.elems[1]
         ELSE NaN)
    ELSE NaN

\* a !== b on numbers: NaN differs from everything, itself included
StrictNe(a, b) == a = NaN \/ b = NaN \/ a # b

Plus(a, b) == IF a = NaN \/ b = NaN THEN NaN ELSE Number(a.n + b.n)

Minus(a, b) == IF a = NaN \/ b = NaN THEN NaN ELSE Number(a.n - b.n)

Negate(a) == IF a = NaN THEN NaN ELSE Number(0 - a.n)

MathMin(a, b) ==
    LET na == ToNumber(a)
        nb == ToNumber(b)
    IN  IF na = NaN \/ nb = NaN THEN NaN
        ELSE IF na.n <= nb.n THEN na ELSE nb

MathMax(a, b) ==
    LET na == ToNumber(a)
        nb == ToNumber(b)
    IN  IF na = NaN \/ nb = NaN THEN NaN
        ELSE IF na.n >= nb.n THEN na ELSE nb

\* the free function lerp(a, b, amt) the class calls; amt is given in halves
\* (amt2 = 0, 1, 2 stand for amt = 0, 0.5, 1): a + (b - a) * amt
lerp(a, b, amt2) ==
    IF a = NaN \/ b = NaN THEN NaN
    ELSE Number(a.n + ((b.n - a.n) * amt2) \div 2)

\* the product (b - a) * amt is a whole number
LerpExact(a, b, amt2) == a = NaN \/ b = NaN \/ ((b.n - a.n) * amt2) % 2 = 0

\* the free function clamp(v, lo, hi) the class calls
clamp(v, lo, hi) == MathMax(lo, MathMin(hi, v))

(***************************************************************************)
(* Buffers.  A buffer no reference reaches is reclaimed, and a new buffer  *)
(* takes the lowest free slot.                                             *)
(***************************************************************************)
BufIds == 1..(MaxHistory + 3)

Free == [t |-> "free"]

Zeros == <<Number(0), Number(0)>>

EmptyHeap == [i \in BufIds |-> Free]

RefIds(v) == IF v.t = "Float32Array" THEN {v.id} ELSE {}

HistoryIds(o) ==
    IF o.history = Undefined THEN {}
    ELSE {o.history.elems[i].id : i \in 1..Len(o.history.elems)}

Live(o) == RefIds(o.coords) \cup RefIds(o.saved) \cup HistoryIds(o)

Alloc(live) == CHOOSE i \in BufIds : i \notin live /\ \A j \in BufIds : j < i => j \in live

Collect(o, h) == [i \in BufIds |-> IF i \in Live(o) THEN h[i] ELSE Free]

\* buf[i] on a Float32Array of length 2: undefined outside 0..1
At(buf, i) == IF i \in 0..(Len(buf) - 1) THEN buf[i + 1] ELSE Undefined

(***************************************************************************)
(* The class.  An operation on the receiver is an operator from the object *)
(* o and the heap h to [err, o, h]; err = NoError when it returned.        *)
(***************************************************************************)
NoError == "none"

ErrArrayLength == "TypeError: Array must be of length 2"

ErrArgumentType == "TypeError: Argument must be an array or Vector2D object"

ErrNoArgument == "TypeError: Must provide an argument"

ErrReadOfUndefined == "TypeError: Cannot read properties of undefined"

\* parse, were the length of an array argument not looked at
parse_any_length(arg1, arg2) ==
    IF arg2 # Undefined THEN
        [err |-> NoError, coords |-> <<ToNumber(arg1), ToNumber(arg2)>>]
    ELSE IF arg1 # Undefined THEN
        IF arg1.t = "Array" THEN
            [err |-> NoError,
             coords |-> <<ToNumber(At(arg1.elems, 0)), ToNumber(At(arg1.elems, 1))>>]
        ELSE IF IsVector(arg1) THEN
            [err |-> NoError, coords |-> <<At(arg1.coords, 0), At(arg1.coords, 1)>>]
        ELSE [err |-> ErrArgumentType, coords |-> Undefined]
    ELSE [err |-> ErrNoArgument, coords |-> Undefined]

\* static parse(arg1, arg2): the contents of the new buffer, or the error
parse(arg1, arg2) ==
    IF arg2 # Undefined THEN
        [err |-> NoError, coords |-> <<ToNumber(arg1), ToNumber(arg2)>>]
    ELSE IF arg1 # Undefined THEN
        IF arg1.t = "Array" THEN
            IF Len(arg1.elems) = 2 THEN
                [err |-> NoError,
                 coords |-> <<ToNumber(arg1.elems[1]), ToNumber(arg1.elems[2])>>]
            ELSE [err |-> ErrArrayLength, coords |-> Undefined]
        ELSE IF IsVector(arg1) THEN
            [err |-> NoError, coords |-> <<At(arg1.coords, 0), At(arg1.coords, 1)>>]
        ELSE [err |-> ErrArgumentType, coords |-> Undefined]
    ELSE [err |-> ErrNoArgument, coords |-> Undefined]

\* set(arg1, arg2): this.coords = Vector2D.parse(arg1, arg2)
set(o, h, arg1, arg2) ==
    LET p  == parse(arg1, arg2)
        id == Alloc(Live([o EXCEPT !.coords = Undefined]))
    IN  IF p.err # NoError THEN [err |-> p.err, o |-> o, h |-> h]
        ELSE [err |-> NoError,
              o   |-> [o EXCEPT !.coords = Ref(id)],
              h   |-> [h EXCEPT ![id] = p.coords]]

\* options.history && options.history > 0
HistoryOn(options) == options.history.t = "number" /\ options.history.n > 0

\* save, were this.saved = this.coords written without slice()
save_alias(o, h) ==
    IF HistoryOn(o.options) /\ o.history = Undefined
    THEN [err |-> ErrReadOfUndefined, o |-> [o EXCEPT !.saved = o.coords], h |-> h]
    ELSE [err |-> NoError, o |-> [o EXCEPT !.saved = o.coords], h |-> h]

\* save(): this.saved = this.coords.slice(), then the history update
save(o, h) ==
    LET id == Alloc(Live([o EXCEPT !.saved = Undefined]))
        o1 == [o EXCEPT !.saved = Ref(id)]
        h1 == [h EXCEPT ![id] = h[o.coords.id]]
        unshifted == <<o1.saved>> \o o.history.elems
        kept == IF Len(unshifted) > o.options.history.n
                THEN SubSeq(unshifted, 1, Len(unshifted) - 1)
                ELSE unshifted
    IN  IF ~HistoryOn(o.options) THEN [err |-> NoError, o |-> o1, h |-> h1]
        ELSE IF o.history = Undefined
        THEN [err |-> ErrReadOfUndefined, o |-> o1, h |-> h1]
        ELSE [err |-> NoError, o |-> [o1 EXCEPT !.history = Array(kept)], h |-> h1]

\* constructor(arg1, arg2, options) on a new object
construct(arg1, arg2, options) ==
    LET id == Alloc({})
        o0 == [options |-> options, coords |-> Ref(id), saved |-> Undefined,
               history |-> Undefined, _min |-> Undefined, _max |-> Undefined]
        h0 == [EmptyHeap EXCEPT ![id] = Zeros]
        s  == set(o0, h0, arg1, arg2)
    IN  IF s.err # NoError THEN s ELSE save(s.o, s.h)

\* new Vector2D(arg1, arg2) for an object other than the receiver (a bound, a
\* returned vector): no options, so coords and saved are all it holds
NewVector(arg1, arg2) ==
    LET r == construct(arg1, arg2, [history |-> Undefined])
    IN  IF r.err # NoError THEN [err |-> r.err, obj |-> Undefined]
        ELSE [err |-> NoError,
              obj |-> [t |-> "Vector2D", coords |-> r.h[r.o.coords.id],
                       saved |-> r.h[r.o.saved.id]]]

\* the receiver, as a value handed to another call
AsValue(o, h) ==
    [t |-> "Vector2D", coords |-> h[o.coords.id],
     saved |-> IF o.saved = Undefined THEN Undefined ELSE h[o.saved.id]]

\* get x(), get y()
x(v) == At(v.coords, 0)

y(v) == At(v.coords, 1)

\* reading property x or y of a value that is not undefined
GetX(v) == IF IsVector(v) THEN x(v) ELSE Undefined

GetY(v) == IF IsVector(v) THEN y(v) ELSE Undefined

\* writes into the buffer this.coords references
Write(o, h, c0, c1) == [h EXCEPT ![o.coords.id] = <<c0, c1>>]

add(o, h, dx, dy) ==
    LET c == h[o.coords.id]
    IN  [err |-> NoError, o |-> o,
         h |-> Write(o, h, ToNumber(Plus(c[1], dx)), ToNumber(Plus(c[2], dy)))]

subtract(o, h, dx, dy) ==
    LET c == h[o.coords.id]
    IN  [err |-> NoError, o |-> o,
         h |-> Write(o, h, ToNumber(Minus(c[1], dx)), ToNumber(Minus(c[2], dy)))]

lerpTo(o, h, tx, ty, amt2) ==
    LET c == h[o.coords.id]
    IN  [err |-> NoError, o |-> o,
         h |-> Write(o, h, lerp(c[1], tx, amt2), lerp(c[2], ty, amt2))]

set_x(o, h, v) ==
    [err |-> NoError, o |-> o, h |-> Write(o, h, ToNumber(v), h[o.coords.id][2])]

set_y(o, h, v) ==
    [err |-> NoError, o |-> o, h |-> Write(o, h, h[o.coords.id][1], ToNumber(v))]

\* dirty, were only the first coordinate compared
dirty_first_axis_only(o, h) ==
    StrictNe(At(h[o.coords.id], 0), At(h[o.saved.id], 0))

\* get dirty()
dirty(o, h) ==
    \/ StrictNe(At(h[o.coords.id], 0), At(h[o.saved.id], 0))
    \/ StrictNe(At(h[o.coords.id], 1), At(h[o.saved.id], 1))

hasValue(o, h) ==
    \/ StrictNe(At(h[o.coords.id], 0), Number(0))
    \/ StrictNe(At(h[o.coords.id], 1), Number(0))
    \/ StrictNe(At(h[o.coords.id], 2), Number(0))

copy(o, h) == NewVector(AsValue(o, h), Undefined)

opposite(o, h) ==
    NewVector(Negate(At(h[o.coords.id], 0)), Negate(At(h[o.coords.id], 1)))

max(o, h, bx, by) ==
    LET r == NewVector(bx, by)
    IN  IF r.err # NoError THEN [err |-> r.err, o |-> o, h |-> h]
        ELSE [err |-> NoError, o |-> [o EXCEPT !._max = r.obj], h |-> h]

min(o, h, bx, by) ==
    LET r == NewVector(bx, by)
    IN  IF r.err # NoError THEN [err |-> r.err, o |-> o, h |-> h]
        ELSE [err |-> NoError, o |-> [o EXCEPT !._min = r.obj], h |-> h]

\* clamp, were the first coordinate clamped against the y bounds
Vector2D_clamp_y_bounds(o, h) ==
    LET c == h[o.coords.id]
    IN  IF o._min = Undefined \/ o._max = Undefined
        THEN [err |-> ErrReadOfUndefined, o |-> o, h |-> h]
        ELSE [err |-> NoError, o |-> o,
              h |-> Write(o, h, clamp(c[1], y(o._min), y(o._max)),
                                clamp(c[2], y(o._min), y(o._max)))]

\* clamp(): this._min.x and this._max.x are read before the first store
Vector2D_clamp(o, h) ==
    LET c == h[o.coords.id]
    IN  IF o._min = Undefined \/ o._max = Undefined
        THEN [err |-> ErrReadOfUndefined, o |-> o, h |-> h]
        ELSE [err |-> NoError, o |-> o,
              h |-> Write(o, h, clamp(c[1], x(o._min), x(o._max)),
                                clamp(c[2], y(o._min), y(o._max)))]

\* limited(): this.min and this.max are the methods min and max
limited(o, h) ==
    LET c == h[o.coords.id]
    IN  NewVector(
            MathMax(GetX(Method("min")), MathMin(GetX(Method("max")), At(c, 0))),
            MathMax(GetY(Method("min")), MathMin(GetY(Method("max")), At(c, 1))))

\* static lerp(v1, v2, amt)
\* lerp, were the interpolation run from v2 to v1
Vector2D_lerp_reversed(v1, v2, amt2) ==
    [new |-> NewVector(lerp(At(v2.coords, 0), At(v1.coords, 0), amt2),
                       lerp(At(v2.coords, 1), At(v1.coords, 1), amt2)),
     v1  |-> v1,
     v2  |-> v2]

\* static lerp(v1, v2, amt): the new vector, and v1 and v2 as the call leaves them
Vector2D_lerp(v1, v2, amt2) ==
    [new |-> NewVector(lerp(At(v1.coords, 0), At(v2.coords, 0), amt2),
                       lerp(At(v1.coords, 1), At(v2.coords, 1), amt2)),
     v1  |-> v1,
     v2  |-> v2]

(***************************************************************************)
(* Arguments of the calls explored.                                        *)
(***************************************************************************)
Arrays(elems) == {Array(a) : a \in UNION {[1..n -> elems] : n \in 0..MaxArrayLen}}

NoOptions == [history |-> Undefined]

Options == {NoOptions} \cup {[history |-> Number(k)] : k \in 0..MaxHistory}

BoundNums == {Number(n) : n \in 0..MaxBound}

\* amt in halves: 0, 0.5, 1
Amounts == 0..2

\* the Vector2D objects a caller of the receiver can reach
Vectors == {AsValue(this, heap)} \cup ({this._min, this._max} \ {Undefined})

\* the argument lists the signatures document: two numbers, one array, one
\* vector; and the lists parse rejects: nothing, one scalar, one plain object
Calls ==
    (Nums \X Nums)
    \cup (Arrays({Number(MaxNum)}) \X {Undefined})
    \cup (Vectors \X {Undefined})
    \cup ((Nums \cup {Undefined, Object}) \X {Undefined})

\* every argument list Vector2D.parse(arg1, arg2) is tried on
ParseCalls ==
    (Nums \cup Arrays(Nums) \cup {Undefined, Object}
          \cup {NewVector(a, b).obj : a \in Nums, b \in Nums})
    \X (Nums \cup {Undefined})

\* every argument list Vector2D.lerp(v1, v2, amt) is tried on
LerpCalls ==
    {NewVector(a, b).obj : a \in Nums, b \in Nums}
    \X {NewVector(a, b).obj : a \in Nums, b \in Nums}
    \X {Number(amt2) : amt2 \in Amounts}

InRangeHeap(o, h) == \A i \in 1..2 : InRange(h[o.coords.id][i])

(***************************************************************************)
(* The calls.                                                              *)
(***************************************************************************)
\* a call on the receiver ended with outcome r and returned value
Done(name, r, value) ==
    /\ this' = r.o
    /\ heap' = Collect(r.o, r.h)
    /\ op' = name
    /\ err' = r.err
    /\ ret' = IF r.err = NoError THEN value ELSE Undefined
    /\ args' = Undefined

\* a call that builds a new vector and leaves the receiver alone
Returned(name, r) ==
    /\ op' = name
    /\ err' = r.err
    /\ ret' = r.obj
    /\ args' = Undefined
    /\ UNCHANGED <<this, heap, constructed>>

Construct ==
    \E c \in Calls, options \in Options :
        LET r == construct(c[1], c[2], options)
        IN  /\ constructed' = (r.err = NoError)
            /\ Done("constructor", r, Undefined)

\* new Vector2D(x, y)
ConstructXY ==
    \E a \in Nums, b \in Nums :
        LET r == construct(a, b, NoOptions)
        IN  /\ constructed' = (r.err = NoError)
            /\ Done("constructor", r, Undefined)

Set ==
    /\ constructed
    /\ \E c \in Calls : Done("set", set(this, heap, c[1], c[2]), Undefined)
    /\ UNCHANGED constructed

Add ==
    /\ constructed
    /\ \E dx \in Nums, dy \in Nums :
        LET r == add(this, heap, dx, dy)
        IN  InRangeHeap(r.o, r.h) /\ Done("add", r, Undefined)
    /\ UNCHANGED constructed

Subtract ==
    /\ constructed
    /\ \E dx \in Nums, dy \in Nums :
        LET r == subtract(this, heap, dx, dy)
        IN  InRangeHeap(r.o, r.h) /\ Done("subtract", r, Undefined)
    /\ UNCHANGED constructed

LerpTo ==
    /\ constructed
    /\ \E tx \in Nums, ty \in Nums, amt2 \in Amounts :
        /\ LerpExact(heap[this.coords.id][1], tx, amt2)
        /\ LerpExact(heap[this.coords.id][2], ty, amt2)
        /\ Done("lerpTo", lerpTo(this, heap, tx, ty, amt2), Undefined)
    /\ UNCHANGED constructed

SetX ==
    /\ constructed
    /\ \E v \in Nums : Done("set x", set_x(this, heap, v), Undefined)
    /\ UNCHANGED constructed

SetY ==
    /\ constructed
    /\ \E v \in Nums : Done("set y", set_y(this, heap, v), Undefined)
    /\ UNCHANGED constructed

Save ==
    /\ constructed
    /\ Done("save", save(this, heap), Undefined)
    /\ UNCHANGED constructed

Max ==
    /\ constructed
    /\ \E bx \in BoundNums, by \in BoundNums \cup {Undefined} :
        Done("max", max(this, heap, bx, by), Undefined)
    /\ UNCHANGED constructed

Min ==
    /\ constructed
    /\ \E bx \in BoundNums, by \in BoundNums \cup {Undefined} :
        Done("min", min(this, heap, bx, by), Undefined)
    /\ UNCHANGED constructed

Clamp ==
    /\ constructed
    /\ Done("clamp", Vector2D_clamp(this, heap), Undefined)
    /\ UNCHANGED constructed

Limited ==
    /\ constructed
    /\ Returned("limited", limited(this, heap))

Copy ==
    /\ constructed
    /\ Returned("copy", copy(this, heap))

Opposite ==
    /\ constructed
    /\ Returned("opposite", opposite(this, heap))

HasValue ==
    /\ constructed
    /\ Returned("hasValue", [err |-> NoError, obj |-> Boolean(hasValue(this, heap))])

\* the state after new Vector2D(0, 0)
Init ==
    /\ this = construct(Number(0), Number(0), NoOptions).o
    /\ heap = construct(Number(0), Number(0), NoOptions).h
    /\ constructed = TRUE
    /\ op = "constructor"
    /\ err = NoError
    /\ ret = Undefined
    /\ args = Undefined

(***************************************************************************)
(* Coordinates and change tracking: construction, the mutators, save and   *)
(* the calls that read the coordinates.                                    *)
(***************************************************************************)
Next ==
    \/ Construct
    \/ Set
    \/ Add
    \/ Subtract
    \/ LerpTo
    \/ SetX
    \/ SetY
    \/ Save
    \/ Copy
    \/ Opposite
    \/ HasValue

Spec == Init /\ [][Next]_vars

(***************************************************************************)
(* Bounds and clamping.                                                    *)
(***************************************************************************)
NextBounds ==
    \/ ConstructXY
    \/ Max
    \/ Min
    \/ Clamp
    \/ Limited

SpecBounds == Init /\ [][NextBounds]_vars

(***************************************************************************)
(* Vector2D.parse on its own: each argument list, then the call.           *)
(***************************************************************************)
InitParse ==
    /\ this = construct(Number(0), Number(0), NoOptions).o
    /\ heap = construct(Number(0), Number(0), NoOptions).h
    /\ constructed = TRUE
    /\ op = "none"
    /\ err = NoError
    /\ ret = Undefined
    /\ args \in ParseCalls

Parse ==
    /\ op = "none"
    /\ op' = "parse"
    /\ err' = parse(args[1], args[2]).err
    /\ ret' = parse(args[1], args[2]).coords
    /\ UNCHANGED <<this, heap, constructed, args>>

SpecParse == InitParse /\ [][Parse]_vars

(***************************************************************************)
(* Vector2D.lerp on its own: two vectors and an amount, then the call.     *)
(***************************************************************************)
InitLerp ==
    /\ this = construct(Number(0), Number(0), NoOptions).o
    /\ heap = construct(Number(0), Number(0), NoOptions).h
    /\ constructed = TRUE
    /\ op = "none"
    /\ err = NoError
    /\ ret = Undefined
    /\ args \in LerpCalls

Lerp ==
    /\ op = "none"
    /\ LerpExact(x(args[1]), x(args[2]), args[3].n)
    /\ LerpExact(y(args[1]), y(args[2]), args[3].n)
    /\ LET r == Vector2D_lerp(args[1], args[2], args[3].n)
       IN  /\ op' = "lerp"
           /\ err' = r.new.err
           /\ ret' = r.new.obj
           /\ args' = <<r.v1, r.v2, args[3]>>
    /\ UNCHANGED <<this, heap, constructed>>

SpecLerp == InitLerp /\ [][Lerp]_vars

(***************************************************************************)
(* Properties.                                                             *)
(***************************************************************************)
\* the calls that change the coordinates of the receiver
Mutators == {"set", "add", "subtract", "lerpTo", "set x", "set y", "clamp"}

ParseErrors == {ErrArrayLength, ErrArgumentType, ErrNoArgument}

Coords(o, h) == h[o.coords.id]

Saved(o, h) == h[o.saved.id]

\* the snapshots of the history, most recent first
HistoryContents(o, h) == [i \in 1..Len(o.history.elems) |-> h[o.history.elems[i].id]]

Take(seq, n) == SubSeq(seq, 1, IF Len(seq) < n THEN Len(seq) ELSE n)

BoundsSet(o) == o._min # Undefined /\ o._max # Undefined

\* max(lo, min(hi, v)) on numbers, case by case
Clamped(v, lo, hi) ==
    IF hi.n < lo.n \/ v.n < lo.n THEN lo
    ELSE IF v.n > hi.n THEN hi
    ELSE v

\* C1, as claimed: dirty is false after construction, true after every
\* mutating call made since the last save(), and false again after save().
C1_DirtyAfterAnyMutation ==
    constructed =>
        /\ op \in {"constructor", "save"} => ~dirty(this, heap)
        /\ (op \in Mutators /\ err = NoError) => dirty(this, heap)

\* C1, amended: dirty is false after construction and after every save();
\* after a mutating call it is true exactly when the call left a coordinate
\* that differs from the snapshot the last save() took, which the call does
\* not touch (add(0, 0) leaves dirty false).
C1_DirtyIffCoordsLeftSnapshot ==
    [][/\ (constructed' /\ op' \in {"constructor", "save"}) => ~dirty(this', heap')
       /\ (op' \in Mutators /\ err' = NoError) =>
            (dirty(this', heap') <=> Coords(this', heap') # Saved(this, heap))]_vars

\* C1: a mutating call has returned and dirty is false
C1_CleanAfterMutation ==
    op = "add" /\ err = NoError /\ ~dirty(this, heap)

\* C2: with options.history = k > 0, construction and every save() return,
\* and leave in history the snapshot just taken followed by the earlier
\* ones, cut to the k most recent; history never holds more than k entries.
C2_HistoryKeepsLastK ==
    [][((op' = "save" \/ (op' = "constructor" /\ err' \notin ParseErrors))
            /\ HistoryOn(this'.options)) =>
        /\ err' = NoError
        /\ this'.history # Undefined
        /\ Len(this'.history.elems) <= this'.options.history.n
        /\ HistoryContents(this', heap') =
              Take(<<Coords(this', heap')>>
                       \o (IF op' = "constructor" THEN <<>>
                           ELSE HistoryContents(this, heap)),
                   this'.options.history.n)]_vars

\* C3: a call that raises leaves coords, saved, history and the bounds as
\* they were before it; inside the constructor, where set and save run on
\* the new object, saved, history and the bounds are still absent.
C3_FailedCallChangesNothing ==
    [][err' # NoError =>
        IF op' = "constructor"
        THEN /\ this'.saved = Undefined
             /\ this'.history = Undefined
             /\ this'._min = Undefined
             /\ this'._max = Undefined
        ELSE this' = this /\ heap' = heap]_vars

\* C4: clamp() and limited() called while a bound is absent raise an error
\* and return nothing.
C4_ClampFamilyRaisesWithoutBounds ==
    (op \in {"clamp", "limited"} /\ ~BoundsSet(this)) =>
        (err # NoError /\ ret = Undefined)

\* C5: with both bounds set, clamp() writes max(lo, min(hi, v)) into each
\* slot of the buffer coords already references, and leaves the bounds, the
\* snapshot and every other field as they were.
C5_ClampInPlace ==
    [][(op' = "clamp" /\ err' = NoError) =>
        /\ BoundsSet(this)
        /\ this' = this
        /\ Saved(this', heap') = Saved(this, heap)
        /\ Coords(this', heap') =
              <<Clamped(Coords(this, heap)[1], x(this._min), x(this._max)),
                Clamped(Coords(this, heap)[2], y(this._min), y(this._max))>>]_vars

\* C5: clamp() has returned and has moved a coordinate
C5_ClampMovedCoords ==
    op = "clamp" /\ err = NoError /\ dirty(this, heap)

\* C6: with both bounds set, limited() returns a new vector holding the
\* receiver's coordinates clamped per axis against the stored bounds, and
\* leaves the receiver as it was.
C6_LimitedReturnsClampedCopy ==
    [][(op' = "limited" /\ BoundsSet(this)) =>
        /\ this' = this
        /\ heap' = heap
        /\ err' = NoError
        /\ ret'.coords =
              <<Clamped(Coords(this, heap)[1], x(this._min), x(this._max)),
                Clamped(Coords(this, heap)[2], y(this._min), y(this._max))>>]_vars

\* the argument lists the claim lets parse accept
TwoScalars(a1, a2) == a1.t = "number" /\ a2.t = "number"

ArrayOfTwo(a1) == a1.t = "Array" /\ Len(a1.elems) = 2

\* C7, as claimed: parse raises for every array argument of a length other
\* than 2, for a single argument that is neither an array nor a vector, and
\* for no argument; it returns a buffer only for two scalars, an array of
\* length 2 or a vector.
C7_ParseRejectsAllBadShapes ==
    op = "parse" =>
        /\ (args[1].t = "Array" /\ Len(args[1].elems) # 2) => err # NoError
        /\ (args[2] = Undefined /\ args[1].t \notin {"Array", "Vector2D"})
               => err # NoError
        /\ err = NoError =>
               \/ TwoScalars(args[1], args[2])
               \/ ArrayOfTwo(args[1])
               \/ IsVector(args[1])

\* C7, amended: the checks apply only when the second argument is absent.
\* Then parse raises for an array of a length other than 2, for a value
\* that is neither an array nor a vector, and for no argument, and returns
\* the two elements of an array of length 2 or the coordinates of a vector.
\* With a second argument it always returns a buffer of two numbers, the
\* two scalars when both arguments are numbers.
C7_ParseChecksOnlyWithoutSecondArgument ==
    op = "parse" =>
        IF args[2] = Undefined
        THEN /\ (args[1].t = "Array" /\ Len(args[1].elems) # 2)
                    => (err = ErrArrayLength /\ ret = Undefined)
             /\ (args[1].t \notin {"Array", "Vector2D", "undefined"})
                    => (err = ErrArgumentType /\ ret = Undefined)
             /\ args[1] = Undefined => (err = ErrNoArgument /\ ret = Undefined)
             /\ ArrayOfTwo(args[1]) => (err = NoError /\ ret = args[1].elems)
             /\ IsVector(args[1]) => (err = NoError /\ ret = args[1].coords)
        ELSE /\ err = NoError
             /\ Len(ret) = 2
             /\ \A i \in 1..2 : InRange(ret[i])
             /\ TwoScalars(args[1], args[2]) => ret = <<args[1], args[2]>>

\* C7: parse has returned a buffer for an array of three elements
C7_LongArrayAccepted ==
    /\ op = "parse"
    /\ err = NoError
    /\ args[1].t = "Array"
    /\ Len(args[1].elems) = 3

\* C8: lerp(v1, v2, amt) returns a new vector equal to v1 for amt = 0, to v2
\* for amt = 1 and to the midpoint of v1 and v2 for amt = 0.5, and leaves v1
\* and v2 as they were.
C8_LerpEndpointsAndMidpoint ==
    [][op' = "lerp" =>
        /\ err' = NoError
        /\ args' = args
        /\ args[3].n = 0 => ret'.coords = args[1].coords
        /\ args[3].n = 2 => ret'.coords = args[2].coords
        /\ args[3].n = 1 =>
              \A i \in 1..2 :
                  ret'.coords[i].n + ret'.coords[i].n
                      = args[1].coords[i].n + args[2].coords[i].n]_vars

\* C8: lerp has returned the midpoint of two different vectors
C8_MidpointOfDistinctVectors ==
    /\ op = "lerp"
    /\ args[3].n = 1
    /\ args[1].coords # args[2].coords
    /\ ret.coords \notin {args[1].coords, args[2].coords}

\* C9: hasValue() returns false exactly when both coordinates are zero.
C9_HasValueIffNonZero ==
    op = "hasValue" => (ret.b <=> Coords(this, heap) # Zeros)

====
